---- MODULE Spec2Model ----
(***************************************************************************)
(* DatabaseEntityLoader (src/src/persistment/DatabaseEntityLoader.ts):     *)
(* the three phases of load() as a state machine.                          *)
(*                                                                         *)
(* Phase 1 is the synchronous recursive walk                               *)
(* findCascadeUpdateAndInsertEntitiesToLoad, modelled with an explicit     *)
(* call stack, one relation per step.  Phase 2 and Phase 3 suspend only at *)
(* their fetches; everything a handler does between two fetch completions  *)
(* (including the promise continuations that run as microtasks) is one     *)
(* action.                                                                 *)
(*                                                                         *)
(* JavaScript values are strings: an identifier is "1", "5", ...; the      *)
(* values null and undefined are "null" and "undefined"; an in-memory      *)
(* entity is named by its object name ("P1", "C5", ...).                   *)
(***************************************************************************)
EXTENDS Integers, Sequences, FiniteSets, TLC

VARIABLES
    heap,        \* the in-memory entity graph: <<object, relation>> -> value
    storage,     \* the rows held by the database
    subjects,    \* every Subject object created and kept, by reference (index)
    loadMap,     \* this.loadMap: sequence of Subject references
    pc,          \* position of load(): idle, phase1, phase2, phase3, resolved, rejected
    error,       \* what load() was rejected with
    stack,       \* call stack of findCascadeUpdateAndInsertEntitiesToLoad
    fetches,     \* Phase-2 findByIds calls in flight
    checks,      \* Phase-3 relation checks suspended at their lookup
    nLoads,      \* number of load() calls made on this loader
    issued,      \* history: every fetch issued by the current load() call
    followed,    \* history: <<object, relation>> pairs the Phase-1 walk recursed through
    failed,      \* history: a fetch of the current load() call failed
    firstResult, \* history: the collection as the first load() call resolved with it
    walked,      \* history: the Subjects and the collection as Phase 1 left them
    entityMetadatas, \* validateMany: the metadata set it is called with
    vEntry,      \* validateMany: the metadata entry being inspected
    vRelation,   \* validateMany: the relation of that entry being inspected
    vErrors,     \* validateMany: the offending relations collected so far
    vResult,     \* validateMany: running, succeeded or failed
    usePool,     \* PostgresDriver: options.usePool is undefined or true
    pool,        \* PostgresDriver: this.pool is set
    databaseConnection,     \* PostgresDriver: this.databaseConnection is set
    databaseConnectionPool, \* PostgresDriver: the connections handed out by the pool
    held,        \* the pool connections whose releaseCallback was not called yet
    registered,  \* history: databaseConnectionPool as the last disconnect() found it
    released,    \* history: the connections whose releaseCallback that disconnect() called
    outcome,     \* history: the last driver call, how it ended, and the lifecycle it met
    lifecycle    \* "new", then "connected" or "failed" by the last connect, "disconnected"

loaderVars == <<heap, storage, subjects, loadMap, pc, error, stack, fetches, checks,
                nLoads, issued, followed, failed, firstResult, walked>>

validatorVars == <<entityMetadatas, vEntry, vRelation, vErrors, vResult>>

driverVars == <<usePool, pool, databaseConnection, databaseConnectionPool, held,
                registered, released, outcome, lifecycle>>

vars == <<loaderVars, validatorVars, driverVars>>

----------------------------------------------------------------------------
(* Bounds *)

\* load() calls made on one loader
MaxLoads == 2

\* relations declared in one metadata set given to validateMany
MaxRelations == 3

\* connections the postgres pool hands out at a time
MaxConnections == 3

----------------------------------------------------------------------------
(* Entity metadata: the relation descriptors the loader reads *)

Null == "null"
Undefined == "undefined"
NoEntity == "none"

\* The in-memory objects of the entity graph.
Objects == {"P1", "P2", "C5", "C6", "D0", "I3", "A1"}

\* entityTarget of an object
TypeOf(o) ==
    CASE o \in {"P1", "P2"} -> "Post"
      [] o \in {"C5", "C6"} -> "Category"
      [] o = "D0" -> "Details"
      [] o = "I3" -> "Information"
      [] OTHER -> "Author"

\* primary column value of an object; D0 is a new entity and has none
IdOf(o) ==
    CASE o = "P1" -> "1"
      [] o = "P2" -> "2"
      [] o = "C5" -> "5"
      [] o = "C6" -> "6"
      [] o = "I3" -> "3"
      [] o = "A1" -> "9"
      [] OTHER -> Undefined

\* metadata.relations of an entity type, in declaration order
RelationsOf(type) ==
    CASE type = "Post" -> <<"category", "details", "information", "author">>
      [] type = "Information" -> <<"post">>
      [] OTHER -> <<>>

Relations == {"category", "details", "information", "author", "post"}

\* relation.inverseEntityMetadata.target
RelTarget(r) ==
    CASE r = "category" -> "Category"
      [] r = "details" -> "Details"
      [] r = "information" -> "Information"
      [] r = "author" -> "Author"
      [] OTHER -> "Post"

\* category, details and author as the sample Post declares them; information and post
\* are the one-to-one pair of the loader's examples, the Post side owning the join
\* column, both sides with every cascade
isManyToOne(r) == r \in {"category", "details", "author"}
isOneToOneOwner(r) == r = "information"
isOneToOneNotOwner(r) == r = "post"

isCascadeInsert(r) == r \in {"category", "details", "information", "post"}
isCascadeUpdate(r) == r \in {"category", "information", "post"}
isCascadeRemove(r) == r \in {"category", "information", "post"}

\* the property of the inverse side that holds the join column (non-owner side only)
InverseJoinProperty(r) == "information"

\* relation.isEntityDefined(value): a real entity reference, not empty
isEntityDefined(v) == v \notin {Null, Undefined}

HasRelation(type, r) ==
    \E i \in 1..Len(RelationsOf(type)) : RelationsOf(type)[i] = r

\* the join columns a row of a type stores (the owner side keeps the foreign key)
OwnedRelations(type) ==
    {r \in Relations : HasRelation(type, r) /\ (isManyToOne(r) \/ isOneToOneOwner(r))}

\* the relation properties of the in-memory objects
Slots == {sl \in Objects \X Relations : HasRelation(TypeOf(sl[1]), sl[2])}

----------------------------------------------------------------------------
(* Rows and Subjects *)

\* the join columns of a row; a type that does not own a relation keeps it null
OwnerRelations == {r \in Relations : isManyToOne(r) \/ isOneToOneOwner(r)}
NoKeys == [r \in OwnerRelations |-> Null]

\* a row as the RELATION_ID_VALUES option returns it: relations as identifiers only
Row(target, id, fk) == [target |-> target, id |-> id, fk |-> fk]

\* "no database entity" / "no row returned"
NoRow == Row("none", Undefined, NoKeys)

\* new Subject(metadata, entity, databaseEntity)
NewSubject(target, entity, databaseEntity) ==
    [target |-> target, entity |-> entity, databaseEntity |-> databaseEntity,
     markedAsRemoved |-> FALSE]

\* subject.mixedId: the identifier of the persisted entity, else of the database entity
MixedId(s) == IF s.entity # NoEntity THEN IdOf(s.entity) ELSE s.databaseEntity.id

\* the Subjects of the collection, in order
Collection == [i \in 1..Len(loadMap) |-> subjects[loadMap[i]]]

RemoveAt(seq, i) == [k \in 1..(Len(seq) - 1) |-> IF k < i THEN seq[k] ELSE seq[k + 1]]

\* relation.getOwnEntityRelationId(databaseEntity): the join column on the owner
\* side, the referenced (primary) column on the non-owner side
getOwnEntityRelationId(r, row) ==
    IF isOneToOneNotOwner(r) THEN row.id ELSE row.fk[r]

\* relation.getOwnEntityRelationId(subject.entity), as the non-owner lookup calls it
getOwnEntityRelationIdOfEntity(r, o) ==
    IF isOneToOneNotOwner(r) THEN IdOf(o) ELSE heap[<<o, r>>]

\* relation.getInverseEntityRelationId(databaseEntity) of a row of the related type
getInverseEntityRelationId(r, row) ==
    IF isOneToOneNotOwner(r) THEN row.fk[InverseJoinProperty(r)] ELSE row.id

\* relation.getInverseEntityRelationId(value) of a persisted related entity
getInverseEntityRelationIdOfEntity(r, o) ==
    IF isOneToOneNotOwner(r) THEN heap[<<o, InverseJoinProperty(r)>>] ELSE IdOf(o)

\* SubjectCollection.find by type + identifier, first match; 0 when there is none
FindIndex(map, subs, target, id) ==
    LET hits == {i \in 1..Len(map) :
                    subs[map[i]].target = target /\ MixedId(subs[map[i]]) = id}
    IN IF hits = {} THEN 0 ELSE CHOOSE i \in hits : \A j \in hits : i <= j

\* SubjectCollection.findByEntityLike(target, entity): reference of the Subject, 0 if none
findByEntityLike(map, subs, target, row) ==
    LET i == FindIndex(map, subs, target, row.id)
    IN IF i = 0 THEN 0 ELSE map[i]

\* SubjectCollection.pushIfNotExist: is a Subject of the same type + identifier there?
hasSubject(map, subs, s) == FindIndex(map, subs, s.target, MixedId(s)) # 0

\* SubjectCollection.groupByEntityTargets: the targets in order of first appearance
GroupTargets(map, subs) ==
    LET first == {i \in 1..Len(map) :
                     \A j \in 1..(i - 1) : subs[map[j]].target # subs[map[i]].target}
        nth[k \in 0..Len(map)] ==
            IF k = 0 THEN <<>>
            ELSE IF k \in first THEN Append(nth[k - 1], subs[map[k]].target)
                 ELSE nth[k - 1]
    IN nth[Len(map)]

\* subjectGroup.subjects.map(subject => subject.mixedId)
GroupIds(map, subs, target) ==
    LET nth[k \in 0..Len(map)] ==
            IF k = 0 THEN <<>>
            ELSE IF subs[map[k]].target = target
                 THEN Append(nth[k - 1], MixedId(subs[map[k]]))
                 ELSE nth[k - 1]
    IN nth[Len(map)]

IdsIn(ids) == {ids[i] : i \in 1..Len(ids)}

\* Repository.findByIds(ids): the stored rows of the type with one of the identifiers
findByIds(target, ids) ==
    {row \in storage : row.target = target /\ row.id \in IdsIn(ids)}

\* QueryBuilder ... where(alias.column = :id).getSingleResult(): the stored row of the
\* type whose column equals the parameter; a null or undefined parameter equals nothing
getSingleResult(target, column, id) ==
    LET hits == {row \in storage :
                    /\ row.target = target
                    /\ id \notin {Null, Undefined}
                    /\ (IF column = "id" THEN row.id ELSE row.fk[column]) = id}
    IN IF hits = {} THEN NoRow ELSE CHOOSE row \in hits : TRUE

----------------------------------------------------------------------------
(* Inputs: the entity graphs and the storage contents load() is run on *)

\* P1 is the root; P2 is a second Post reachable through I3; the properties not listed
\* are left undefined
Heaps ==
    {[sl \in Slots |->
         CASE sl = <<"P1", "category">> -> c
           [] sl = <<"P1", "details">> -> d
           [] sl = <<"P1", "information">> -> i
           [] sl = <<"P1", "author">> -> a
           [] sl = <<"P2", "category">> -> c2
           [] sl = <<"I3", "post">> -> p
           [] OTHER -> Undefined] :
        c \in {Undefined, Null, "C5", "C6"},
        d \in {Undefined, "D0"},
        i \in {Undefined, Null, "I3"},
        a \in {"A1"},
        c2 \in {Undefined, "C5"},
        p \in {Undefined, Null, "P1", "P2"}}

PostRows(id) ==
    {Row("Post", id, [NoKeys EXCEPT !["category"] = c, !["information"] = i]) :
        c \in {Null, "5", "6"}, i \in {Null, "3"}}

\* at most one row per type and identifier
Storages ==
    {p1 \cup p2 \cup c5 \cup i3
        \cup {Row("Category", "6", NoKeys), Row("Details", "7", NoKeys)} :
        p1 \in {{}} \cup {{row} : row \in PostRows("1")},
        p2 \in {{Row("Post", "2", [NoKeys EXCEPT !["category"] = "5"])}},
        c5 \in {{}, {Row("Category", "5", NoKeys)}},
        i3 \in {{}, {Row("Information", "3", NoKeys)}}}

\* the entity load() is called with
Roots == {"P1"}

\* the deepest the walk can recurse without visiting an object twice; deeper
\* recursion is recursion that never ends
StackLimit == Cardinality(Objects)

\* no PostgresDriver is in use
DriverIdle ==
    /\ usePool = TRUE
    /\ pool = FALSE
    /\ databaseConnection = FALSE
    /\ databaseConnectionPool = <<>>
    /\ held = {}
    /\ registered = <<>>
    /\ released = <<>>
    /\ outcome = [call |-> "new", result |-> "ok", at |-> "new"]
    /\ lifecycle = "new"

\* no validateMany call is under way
ValidatorIdle ==
    /\ entityMetadatas = <<>>
    /\ vEntry = 0
    /\ vRelation = 0
    /\ vErrors = <<>>
    /\ vResult = "idle"

Init ==
    /\ heap \in Heaps
    /\ storage \in Storages
    /\ subjects = <<>>
    /\ loadMap = <<>>
    /\ pc = "idle"
    /\ error = "none"
    /\ stack = <<>>
    /\ fetches = <<>>
    /\ checks = <<>>
    /\ nLoads = 0
    /\ issued = <<>>
    /\ followed = {}
    /\ failed = FALSE
    /\ firstResult = <<>>
    /\ walked = [subjects |-> <<>>, loadMap |-> <<>>]
    /\ ValidatorIdle
    /\ DriverIdle

----------------------------------------------------------------------------
(* load(): the root Subject, then Phase 1 *)

\* load(entity, metadata), up to the call of the Phase-1 walk.  A caller runs load
\* again only on a loader whose previous load has resolved.
Load(root) ==
    /\ pc \in {"idle", "resolved"}
    /\ nLoads < MaxLoads
    /\ subjects' = Append(subjects, NewSubject(TypeOf(root), root, NoRow))
    /\ loadMap' = Append(loadMap, Len(subjects) + 1)
    /\ stack' = <<[entity |-> root, idx |-> 1]>>
    /\ pc' = "phase1"
    /\ nLoads' = nLoads + 1
    /\ issued' = <<>>
    /\ failed' = FALSE
    /\ UNCHANGED <<validatorVars, driverVars>>
    /\ UNCHANGED <<walked, heap, storage, error, fetches, checks, followed, firstResult>>

Top == stack[Len(stack)]

\* the walk looks at the first relation of an entity only
TopRelationsFirstOnly ==
    LET relations == RelationsOf(TypeOf(stack[Len(stack)].entity))
    IN IF relations = <<>> THEN relations ELSE <<relations[1]>>

TopRelations == RelationsOf(TypeOf(Top.entity))
TopRelation == TopRelations[Top.idx]
TopValue == heap[<<Top.entity, TopRelation>>]

\* the walk takes every relation that has a value
mustLoadAnyValue(relation, value) == isEntityDefined(value)

\* the walk takes a relation with insert or update cascade whatever its value
mustLoadAnyCascade(relation, value) == isCascadeInsert(relation) \/ isCascadeUpdate(relation)

\* the walk takes a relation with update cascade only
mustLoadUpdateOnly(relation, value) == isEntityDefined(value) /\ isCascadeUpdate(relation)

\* the condition under which the walk takes a relation (line 115)
mustLoad(relation, value) ==
    isEntityDefined(value) /\ (isCascadeInsert(relation) \/ isCascadeUpdate(relation))

Walking == pc = "phase1" /\ stack # <<>>

\* this.loadMap.pushIfNotExist(new Subject(valueMetadata, value))
pushIfNotExist(value) ==
    LET subject == NewSubject(TypeOf(value), value, NoRow)
    IN IF hasSubject(loadMap, subjects, subject)
       THEN UNCHANGED <<subjects, loadMap>>
       ELSE /\ subjects' = Append(subjects, subject)
            /\ loadMap' = Append(loadMap, Len(subjects) + 1)

\* forEach callback, condition true: the Subject is added if it is not there and the
\* walk recurses into the value
Phase1Follow ==
    /\ Walking
    /\ Top.idx <= Len(TopRelations)
    /\ mustLoad(TopRelation, TopValue)
    /\ Len(stack) < StackLimit
    /\ pushIfNotExist(TopValue)
    /\ stack' = Append([stack EXCEPT ![Len(stack)].idx = @ + 1],
                       [entity |-> TopValue, idx |-> 1])
    /\ followed' = followed \cup {<<Top.entity, TopRelation>>}
    /\ UNCHANGED <<validatorVars, driverVars>>
    /\ UNCHANGED <<walked, heap, storage, pc, error, fetches, checks, nLoads, issued,
                   failed, firstResult>>

\* the same call when the recursion is already deeper than the number of objects: the
\* walk is in a cycle and recurses until the runtime's call stack is exhausted; the
\* RangeError rejects load()
Phase1Overflow ==
    /\ Walking
    /\ Top.idx <= Len(TopRelations)
    /\ mustLoad(TopRelation, TopValue)
    /\ Len(stack) >= StackLimit
    /\ pushIfNotExist(TopValue)
    /\ stack' = <<>>
    /\ followed' = followed \cup {<<Top.entity, TopRelation>>}
    /\ pc' = "rejected"
    /\ error' = "RangeError"
    /\ UNCHANGED <<validatorVars, driverVars>>
    /\ UNCHANGED <<walked, heap, storage, fetches, checks, nLoads, issued, failed, firstResult>>

\* forEach callback, condition false: the relation is passed over
Phase1Skip ==
    /\ Walking
    /\ Top.idx <= Len(TopRelations)
    /\ ~mustLoad(TopRelation, TopValue)
    /\ stack' = [stack EXCEPT ![Len(stack)].idx = @ + 1]
    /\ UNCHANGED <<validatorVars, driverVars>>
    /\ UNCHANGED <<walked, heap, storage, subjects, loadMap, pc, error, fetches, checks,
                   nLoads, issued, followed, failed, firstResult>>

\* forEach is through: findCascadeUpdateAndInsertEntitiesToLoad returns
Phase1Return ==
    /\ Walking
    /\ Top.idx > Len(TopRelations)
    /\ stack' = SubSeq(stack, 1, Len(stack) - 1)
    /\ UNCHANGED <<validatorVars, driverVars>>
    /\ UNCHANGED <<walked, heap, storage, subjects, loadMap, pc, error, fetches, checks,
                   nLoads, issued, followed, failed, firstResult>>

----------------------------------------------------------------------------
(* Phase 2: populateSubjectCollectionWithDatabaseEntities *)

\* one findByIds per Subject of the collection
SubjectFetches(map, subs) ==
    [k \in 1..Len(map) |->
        [kind |-> "findByIds", target |-> subs[map[k]].target,
         ids |-> <<MixedId(subs[map[k]])>>]]

\* groupByEntityTargets().map(...): one findByIds per group, all issued before the
\* first of them is awaited
GroupFetches(map, subs) ==
    LET targets == GroupTargets(map, subs)
    IN [k \in 1..Len(targets) |->
           [kind |-> "findByIds", target |-> targets[k],
            ids |-> GroupIds(map, subs, targets[k])]]

\* the walk has returned to load(), which calls populate...: the fetches go out
StartPhase2 ==
    /\ pc = "phase1"
    /\ stack = <<>>
    /\ fetches' = GroupFetches(loadMap, subjects)
    /\ issued' = issued \o GroupFetches(loadMap, subjects)
    /\ pc' = "phase2"
    /\ walked' = [subjects |-> subjects, loadMap |-> loadMap]
    /\ UNCHANGED <<validatorVars, driverVars>>
    /\ UNCHANGED <<heap, storage, subjects, loadMap, error, stack, checks, nLoads,
                   followed, failed, firstResult>>

\* only the first findByIds that returns rows has them assigned
AssignFirstBatchOnly(map, subs, target, rows) ==
    [k \in 1..Len(subs) |->
        IF /\ \A j \in 1..Len(subs) : subs[j].databaseEntity = NoRow
           /\ \E row \in rows : findByEntityLike(map, subs, target, row) = k
        THEN [subs[k] EXCEPT !.databaseEntity =
                 CHOOSE row \in rows : findByEntityLike(map, subs, target, row) = k]
        ELSE subs[k]]

\* entities.forEach(entity => { subject = findByEntityLike(...); if (subject)
\* subject.databaseEntity = entity })
AssignDatabaseEntities(map, subs, target, rows) ==
    [k \in 1..Len(subs) |->
        IF \E row \in rows : findByEntityLike(map, subs, target, row) = k
        THEN [subs[k] EXCEPT !.databaseEntity =
                 CHOOSE row \in rows : findByEntityLike(map, subs, target, row) = k]
        ELSE subs[k]]

----------------------------------------------------------------------------
(* Phase 3: findCascadeRemovedEntitiesToLoad *)

\* every Subject is taken as one that has a database entity
hasDatabaseEntityAlways(subject) == TRUE

\* subject.databaseEntity is set: the filter of load() (line 88) and the guard of
\* each relation check (line 153)
hasDatabaseEntity(subject) == subject.databaseEntity # NoRow

\* persistValueRelationId as lines 156-160 compute it
PersistValueRelationId(subject, r) ==
    IF subject.entity = NoEntity THEN Null
    ELSE LET value == heap[<<subject.entity, r>>]
         IN IF isEntityDefined(value)
            THEN getInverseEntityRelationIdOfEntity(r, value)
            ELSE value

\* "skip undefined properties" (line 161)
SkipUndefined(subject, r) ==
    subject.entity # NoEntity /\ PersistValueRelationId(subject, r) = Undefined

\* the guards of an owner-side relation without the one on the database relation id
OwnerNothingToRemoveByPersisted(subject, r) ==
    LET relationIdInDatabaseEntity == getOwnEntityRelationId(r, subject.databaseEntity)
        persistValueRelationId == PersistValueRelationId(subject, r)
    IN \/ persistValueRelationId = Null
       \/ persistValueRelationId = relationIdInDatabaseEntity

\* the guards of an owner-side relation without the one on the persisted relation id
OwnerNothingToRemoveByDatabase(subject, r) ==
    getOwnEntityRelationId(r, subject.databaseEntity) \notin {Null, Undefined}

\* the guards before the lookup of an owner-side relation (lines 196-201): TRUE when
\* the check returns without looking for a removed entity
OwnerNothingToRemove(subject, r) ==
    LET relationIdInDatabaseEntity == getOwnEntityRelationId(r, subject.databaseEntity)
        persistValueRelationId == PersistValueRelationId(subject, r)
    IN \/ relationIdInDatabaseEntity \notin {Null, Undefined}
       \/ persistValueRelationId = Null
       \/ persistValueRelationId = relationIdInDatabaseEntity

\* the guard before the lookup of a non-owner one-to-one relation (lines 260-264)
NotOwnerNothingToRemove(subject, r) ==
    getOwnEntityRelationId(r, subject.databaseEntity) \notin {Null, Undefined}

\* this.loadMap.find(relatedSubject => ...) of lines 204-214 and 267-277: the
\* reference of the first Subject with a database entity of the related type whose
\* inverse relation id is the relation id in the database entity; 0 when none
AlreadyLoaded(map, subs, subject, r) ==
    LET hits == {i \in 1..Len(map) :
                    /\ subs[map[i]].databaseEntity # NoRow
                    /\ subs[map[i]].target = RelTarget(r)
                    /\ getInverseEntityRelationId(r, subs[map[i]].databaseEntity)
                          = getOwnEntityRelationId(r, subject.databaseEntity)}
    IN IF hits = {} THEN 0 ELSE map[CHOOSE i \in hits : \A j \in hits : i <= j]

\* the lookup is made with the relation id of the persisted entity
LookupIdPersisted(subject, r) == PersistValueRelationId(subject, r)

\* the parameter of the lookup (lines 224 and 287)
LookupId(subject, r) ==
    IF isOneToOneNotOwner(r)
    THEN IF subject.entity = NoEntity THEN Undefined
         ELSE getOwnEntityRelationIdOfEntity(r, subject.entity)
    ELSE getOwnEntityRelationId(r, subject.databaseEntity)

\* the column the lookup filters on (lines 223 and 286)
LookupColumn(r) == IF isOneToOneNotOwner(r) THEN InverseJoinProperty(r) ELSE "id"

\* lines 307-309: the non-owner relation still points at the row found
NotOwnerUnchanged(subject, r, related) ==
    /\ isOneToOneNotOwner(r)
    /\ isEntityDefined(PersistValueRelationId(subject, r))
    /\ PersistValueRelationId(subject, r)
          = getInverseEntityRelationId(r, related.databaseEntity)

\* the relation checks findCascadeRemovedEntitiesToLoad(subject) starts, in order
RelationChecks(subs, ref) ==
    [k \in 1..Len(RelationsOf(subs[ref].target)) |->
        <<ref, RelationsOf(subs[ref].target)[k]>>]

\* alreadyLoadedRelatedDatabaseSubject.markedAsRemoved = true; the checks of the
\* related Subject are started next (line 236, line 312)
MarkRemoved(st, related) ==
    [st EXCEPT !.subjects[related].markedAsRemoved = TRUE]

\* One relation check from its start to its first suspension: st with the effects,
\* and the checks it starts in turn
CheckStart(st, ref, r) ==
    LET subject == st.subjects[ref]
        related == AlreadyLoaded(st.loadMap, st.subjects, subject, r)
        lookup == [kind |-> "lookup", subject |-> ref, relation |-> r,
                   target |-> RelTarget(r), column |-> LookupColumn(r),
                   id |-> LookupId(subject, r)]
        suspended == [st EXCEPT !.checks = Append(@, lookup),
                                !.issued = Append(@, lookup)]
        done == [state |-> st, work |-> <<>>]
    IN IF ~isCascadeRemove(r) \/ ~hasDatabaseEntity(subject) THEN done
       ELSE IF SkipUndefined(subject, r) THEN done
       ELSE IF isOneToOneOwner(r) \/ isManyToOne(r)
       THEN IF OwnerNothingToRemove(subject, r) THEN done
            ELSE IF related = 0 THEN [state |-> suspended, work |-> <<>>]
            ELSE [state |-> MarkRemoved(st, related),
                  work |-> RelationChecks(st.subjects, related)]
       ELSE IF NotOwnerNothingToRemove(subject, r) THEN done
            ELSE IF related = 0 THEN [state |-> suspended, work |-> <<>>]
            ELSE IF NotOwnerUnchanged(subject, r, st.subjects[related]) THEN done
            ELSE [state |-> MarkRemoved(st, related),
                  work |-> RelationChecks(st.subjects, related)]

\* the checks run one after the other, each up to its suspension, a check started by
\* another one before the ones that follow it (the step is bound through a singleton
\* set so that it is evaluated once)
RECURSIVE RunChecks(_, _)
RunChecks(st, work) ==
    IF work = <<>> THEN st
    ELSE CHOOSE result \in
             {RunChecks(step.state, step.work \o Tail(work)) :
                 step \in {CheckStart(st, work[1][1], work[1][2])}} : TRUE

\* a relation check that, resumed, makes its lookup once more
CheckResumeAgain(st, check, row) == [st EXCEPT !.checks = Append(@, check)]

\* a relation check resumed without the test that a row was returned
CheckResumeUnchecked(st, check, row) ==
    LET related == Len(st.subjects) + 1
        created == [st EXCEPT
                      !.subjects = Append(@, NewSubject(check.target, NoEntity, row)),
                      !.loadMap = Append(@, check.subject)]
    IN RunChecks(MarkRemoved(created, related),
                 RelationChecks(created.subjects, related))

\* a relation check resumed with the row its lookup returned (lines 228-237, 294-313)
CheckResume(st, check, row) ==
    LET subject == st.subjects[check.subject]
        related == Len(st.subjects) + 1
        created == [st EXCEPT
                      !.subjects = Append(@, NewSubject(check.target, NoEntity, row)),
                      !.loadMap = Append(@, check.subject)]
    IN IF row = NoRow THEN st
       ELSE IF NotOwnerUnchanged(subject, check.relation, created.subjects[related])
       THEN created
       ELSE RunChecks(MarkRemoved(created, related),
                      RelationChecks(created.subjects, related))

\* load(), lines 87-89: a check per Subject that has a database entity
RemovePopulation(map, subs) ==
    LET nth[k \in 0..Len(map)] ==
            IF k = 0 THEN <<>>
            ELSE IF hasDatabaseEntity(subs[map[k]])
                 THEN nth[k - 1] \o RelationChecks(subs, map[k])
                 ELSE nth[k - 1]
    IN nth[Len(map)]

State(subs, map, chks, iss) ==
    [subjects |-> subs, loadMap |-> map, checks |-> chks, issued |-> iss]

\* Phase 2 is left with the first findByIds that returns
firstGroupFetched(pending) == TRUE

\* await Promise.all(promises) of populate... (line 338) goes on when no findByIds is
\* pending any more
allGroupsFetched(pending) == pending = <<>>

\* Phase 3 is left with the first relation check that ends
firstCheckSettled(pending) == TRUE

\* await Promise.all(...) of load() and of every findCascadeRemovedEntitiesToLoad
\* (lines 90, 317) goes on when no relation check is pending any more
allChecksSettled(pending) == pending = <<>>

\* a rejected promise is dropped
rejectNever(phase) == UNCHANGED <<pc, error>>

\* await Promise.all(promises) throws as soon as one promise rejects: load(), if it is
\* at that await, is rejected
reject(phase) ==
    IF pc = phase
    THEN pc' = "rejected" /\ error' = "FetchError"
    ELSE UNCHANGED <<pc, error>>

\* load() resolves: nothing is left to await
Resolve(subs, map) ==
    /\ pc' = "resolved"
    /\ firstResult' = IF nLoads = 1 THEN [i \in 1..Len(map) |-> subs[map[i]]]
                      ELSE firstResult

\* A findByIds returns and its then-callback assigns the database entities.  When it
\* was the last one, Promise.all resolves, load() goes on to Phase 3 and starts every
\* relation check; with no check suspended load() resolves in the same turn.
FindByIdsReturns(i) ==
    /\ i \in 1..Len(fetches)
    /\ LET rows == findByIds(fetches[i].target, fetches[i].ids)
           subs == AssignDatabaseEntities(loadMap, subjects, fetches[i].target, rows)
       IN \E st \in {RunChecks(State(subs, loadMap, checks, issued),
                                RemovePopulation(loadMap, subs))} :
          /\ fetches' = RemoveAt(fetches, i)
          /\ IF pc = "phase2" /\ allGroupsFetched(RemoveAt(fetches, i))
             THEN /\ subjects' = st.subjects
                  /\ loadMap' = st.loadMap
                  /\ checks' = st.checks
                  /\ issued' = st.issued
                  /\ IF allChecksSettled(st.checks)
                     THEN Resolve(st.subjects, st.loadMap)
                     ELSE pc' = "phase3" /\ UNCHANGED firstResult
             ELSE /\ subjects' = subs
                  /\ UNCHANGED <<loadMap, checks, issued, pc, firstResult>>
    /\ UNCHANGED <<validatorVars, driverVars>>
    /\ UNCHANGED <<walked, heap, storage, error, stack, nLoads, followed, failed>>

\* A findByIds fails: Promise.all rejects at once and so does load(); the other
\* fetches stay in flight.
FindByIdsFails(i) ==
    /\ i \in 1..Len(fetches)
    /\ fetches' = RemoveAt(fetches, i)
    /\ failed' = TRUE
    /\ reject("phase2")
    /\ UNCHANGED <<validatorVars, driverVars>>
    /\ UNCHANGED <<walked, heap, storage, subjects, loadMap, stack, checks, nLoads, issued,
                   followed, firstResult>>

\* A lookup returns and its check runs on to its end (or to the lookups of the checks
\* it starts).  When no check is left suspended every Promise.all resolves and so
\* does load().
LookupReturns(i) ==
    /\ i \in 1..Len(checks)
    /\ LET row == getSingleResult(checks[i].target, checks[i].column, checks[i].id)
           st == CheckResume(State(subjects, loadMap, RemoveAt(checks, i), issued),
                             checks[i], row)
       IN /\ subjects' = st.subjects
          /\ loadMap' = st.loadMap
          /\ checks' = st.checks
          /\ issued' = st.issued
          /\ IF pc = "phase3" /\ allChecksSettled(st.checks)
             THEN Resolve(st.subjects, st.loadMap)
             ELSE UNCHANGED <<pc, firstResult>>
    /\ UNCHANGED <<validatorVars, driverVars>>
    /\ UNCHANGED <<walked, heap, storage, error, stack, fetches, nLoads, followed, failed>>

\* A lookup fails: the check rejects, Promise.all rejects at once and so does load();
\* the other checks stay suspended at their lookups.
LookupFails(i) ==
    /\ i \in 1..Len(checks)
    /\ checks' = RemoveAt(checks, i)
    /\ failed' = TRUE
    /\ reject("phase3")
    /\ UNCHANGED <<validatorVars, driverVars>>
    /\ UNCHANGED <<walked, heap, storage, subjects, loadMap, stack, fetches, nLoads, issued,
                   followed, firstResult>>

----------------------------------------------------------------------------

Next ==
    \/ \E root \in Roots : Load(root)
    \/ Phase1Follow
    \/ Phase1Overflow
    \/ Phase1Skip
    \/ Phase1Return
    \/ StartPhase2
    \/ \E i \in 1..Len(fetches) : FindByIdsReturns(i)
    \/ \E i \in 1..Len(fetches) : FindByIdsFails(i)
    \/ \E i \in 1..Len(checks) : LookupReturns(i)
    \/ \E i \in 1..Len(checks) : LookupFails(i)

Spec == Init /\ [][Next]_vars

\* the entity graphs of the runs checked for termination: the root with its category
\* and information null or set, the information with or without its post
FairHeaps ==
    {h \in Heaps :
        /\ h[<<"P1", "category">>] \in {Null, "C6"}
        /\ h[<<"P1", "details">>] = Undefined
        /\ h[<<"P1", "information">>] \in {Null, "I3"}
        /\ h[<<"P2", "category">>] = Undefined
        /\ h[<<"I3", "post">>] \in {Null, "P1"}}

\* their storages: the Post row 1 and the Information row 3 are stored, the Post row
\* with or without its foreign keys
FairStorages ==
    {st \in Storages :
        /\ Row("Information", "3", NoKeys) \in st
        /\ Row("Category", "5", NoKeys) \notin st
        /\ \E row \in st :
              row.target = "Post" /\ row.id = "1" /\ row.fk["category"] \in {Null, "6"}}

FairInit ==
    /\ heap \in FairHeaps
    /\ storage \in FairStorages
    /\ subjects = <<>>
    /\ loadMap = <<>>
    /\ pc = "idle"
    /\ error = "none"
    /\ stack = <<>>
    /\ fetches = <<>>
    /\ checks = <<>>
    /\ nLoads = 0
    /\ issued = <<>>
    /\ followed = {}
    /\ failed = FALSE
    /\ firstResult = <<>>
    /\ walked = [subjects |-> <<>>, loadMap |-> <<>>]
    /\ ValidatorIdle
    /\ DriverIdle

\* the same program with a storage that answers: a findByIds or a lookup that is
\* pending does not stay so for ever
FairSpec ==
    /\ FairInit
    /\ [][Next]_vars
    /\ WF_vars(\E i \in 1..Len(fetches) : FindByIdsReturns(i))
    /\ WF_vars(\E i \in 1..Len(checks) : LookupReturns(i))

----------------------------------------------------------------------------
(* EntityMetadataValidator.validateMany, as the specification's section 4.1
   describes it and test/functional/entity-metadata-validator calls it *)

\* the cardinalities a relation is declared with
RelationTypes == {"many-to-one", "one-to-one", "one-to-many"}

\* a relation of an entity metadata: its cardinality, and whether a relation count
\* is declared on it
RelationDeclarations == [relationType : RelationTypes, relationCount : BOOLEAN]

\* the metadata sets validateMany is called with: the metadata of two entities with
\* at most MaxRelations relations between them
MetadataSets ==
    UNION {UNION {{<<[name |-> "Post", relations |-> a],
                     [name |-> "Category", relations |-> b]>> :
                       a \in [1..k -> RelationDeclarations],
                       b \in [1..j -> RelationDeclarations]} :
                  j \in 0..(MaxRelations - k)} :
           k \in 0..MaxRelations}

\* no load() call is under way
LoaderIdle ==
    /\ heap = [sl \in Slots |-> Undefined]
    /\ storage = {}
    /\ subjects = <<>>
    /\ loadMap = <<>>
    /\ pc = "idle"
    /\ error = "none"
    /\ stack = <<>>
    /\ fetches = <<>>
    /\ checks = <<>>
    /\ nLoads = 0
    /\ issued = <<>>
    /\ followed = {}
    /\ failed = FALSE
    /\ firstResult = <<>>
    /\ walked = [subjects |-> <<>>, loadMap |-> <<>>]

\* validateMany(entityMetadatas) is called
ValidatorInit ==
    /\ entityMetadatas \in MetadataSets
    /\ vEntry = 1
    /\ vRelation = 1
    /\ vErrors = <<>>
    /\ vResult = "running"
    /\ LoaderIdle
    /\ DriverIdle

\* the rule checked on many-to-one relations only
isRelationCountOnManyToOne(relation) ==
    relation.relationCount /\ relation.relationType = "many-to-one"

\* the rule: a relation count must not be declared on a relation of singular
\* cardinality (many-to-one or one-to-one)
isRelationCountOnSingular(relation) ==
    relation.relationCount /\ relation.relationType \in {"many-to-one", "one-to-one"}

\* the inspection ends at the first violation found
validationEndsAtFirstError == vEntry > Len(entityMetadatas) \/ vErrors # <<>>

\* every relation of every metadata entry has been inspected
validationEnds == vEntry > Len(entityMetadatas)

\* the relations of the entry under inspection
EntryRelations == entityMetadatas[vEntry].relations

\* one relation is checked; a violation is collected
ValidateRelation ==
    /\ vResult = "running"
    /\ ~validationEnds
    /\ vRelation <= Len(EntryRelations)
    /\ vErrors' = IF isRelationCountOnSingular(EntryRelations[vRelation])
                  THEN Append(vErrors, <<vEntry, vRelation>>)
                  ELSE vErrors
    /\ vRelation' = vRelation + 1
    /\ UNCHANGED <<entityMetadatas, vEntry, vResult>>
    /\ UNCHANGED <<loaderVars, driverVars>>

\* the relations of an entry are exhausted: on to the next entry
ValidateNextEntry ==
    /\ vResult = "running"
    /\ ~validationEnds
    /\ vRelation > Len(EntryRelations)
    /\ vEntry' = vEntry + 1
    /\ vRelation' = 1
    /\ UNCHANGED <<entityMetadatas, vErrors, vResult>>
    /\ UNCHANGED <<loaderVars, driverVars>>

\* validateMany ends: it fails with the violations collected, or succeeds with none
ValidateEnd ==
    /\ vResult = "running"
    /\ validationEnds
    /\ vResult' = IF vErrors = <<>> THEN "succeeded" ELSE "failed"
    /\ UNCHANGED <<entityMetadatas, vEntry, vRelation, vErrors>>
    /\ UNCHANGED <<loaderVars, driverVars>>

ValidatorNext ==
    \/ ValidateRelation
    \/ ValidateNextEntry
    \/ ValidateEnd

SpecValidator == ValidatorInit /\ [][ValidatorNext]_vars

----------------------------------------------------------------------------
(* PostgresDriver: connect, createQueryRunner, the release of a pool connection,
   disconnect *)

\* the clients of the postgres pool
Clients == 1..MaxConnections

\* new PostgresDriver(options, ...): pooling is on (usePool undefined or true) or off
DriverInit ==
    /\ usePool \in BOOLEAN
    /\ pool = FALSE
    /\ databaseConnection = FALSE
    /\ databaseConnectionPool = <<>>
    /\ held = {}
    /\ registered = <<>>
    /\ released = <<>>
    /\ outcome = [call |-> "new", result |-> "ok", at |-> "new"]
    /\ lifecycle = "new"
    /\ LoaderIdle
    /\ ValidatorIdle

\* connect(): with pooling the pool is created and the promise resolves; without, the
\* connection is set and the promise is settled by the client's connect callback
Connect ==
    /\ IF usePool
       THEN /\ pool' = TRUE
            /\ outcome' = [call |-> "connect", result |-> "resolved", at |-> lifecycle]
            /\ lifecycle' = "connected"
            /\ UNCHANGED databaseConnection
       ELSE /\ databaseConnection' = TRUE
            /\ \E err \in BOOLEAN :
                  /\ outcome' = [call |-> "connect",
                                 result |-> IF err THEN "error" ELSE "resolved",
                                 at |-> lifecycle]
                  /\ lifecycle' = IF err THEN "failed" ELSE "connected"
            /\ UNCHANGED pool
    /\ UNCHANGED <<usePool, databaseConnectionPool, held, registered, released>>
    /\ UNCHANGED <<loaderVars, validatorVars>>

\* Array.prototype.indexOf: the position of the connection in the list, 0 when it is
\* not there (positions count from 1 here)
IndexOf(list, connection) ==
    IF \E k \in 1..Len(list) : list[k] = connection
    THEN CHOOSE k \in 1..Len(list) :
             list[k] = connection /\ \A j \in 1..(k - 1) : list[j] # connection
    ELSE 0

\* list.splice(list.indexOf(connection), 1): indexOf's -1 for a connection that is not
\* in the list makes splice remove the last element
Splice(list, connection) ==
    IF list = <<>> THEN list
    ELSE IF IndexOf(list, connection) = 0 THEN RemoveAt(list, Len(list))
    ELSE RemoveAt(list, IndexOf(list, connection))

\* databaseConnectionPool.forEach(dbConnection => dbConnection.releaseCallback()) of
\* disconnect(): forEach goes through the positions the list had when it started and
\* passes over a position the list has no more, while each releaseCallback splices
\* its connection out of the list
RECURSIVE ForEachRelease(_, _, _, _)
ForEachRelease(list, k, length, called) ==
    IF k > length THEN [list |-> list, called |-> called]
    ELSE IF k > Len(list) THEN ForEachRelease(list, k + 1, length, called)
    ELSE ForEachRelease(Splice(list, list[k]), k + 1, length, Append(called, list[k]))

\* createQueryRunner(): without connection and pool it is rejected; with a pool,
\* retrieveDatabaseConnection takes a client from it (or fails to), registers the
\* connection and gives it its releaseCallback; without pool it hands out the
\* connection of the driver
CreateQueryRunner ==
    /\ IF ~databaseConnection /\ ~pool
       THEN /\ outcome' = [call |-> "createQueryRunner",
                           result |-> "ConnectionIsNotSetError", at |-> lifecycle]
            /\ UNCHANGED <<databaseConnectionPool, held>>
       ELSE IF pool
       THEN \/ /\ outcome' = [call |-> "createQueryRunner", result |-> "error",
                              at |-> lifecycle]
               /\ UNCHANGED <<databaseConnectionPool, held>>
            \/ \E client \in Clients \ held :
                  /\ databaseConnectionPool' =
                        IF IndexOf(databaseConnectionPool, client) = 0
                        THEN Append(databaseConnectionPool, client)
                        ELSE databaseConnectionPool
                  /\ held' = held \cup {client}
                  /\ outcome' = [call |-> "createQueryRunner", result |-> "resolved",
                                 at |-> lifecycle]
       ELSE /\ outcome' = [call |-> "createQueryRunner", result |-> "resolved",
                           at |-> lifecycle]
            /\ UNCHANGED <<databaseConnectionPool, held>>
    /\ UNCHANGED <<usePool, pool, databaseConnection, registered, released, lifecycle>>
    /\ UNCHANGED <<loaderVars, validatorVars>>

\* a query runner releases its connection: dbConnection.releaseCallback()
Release(client) ==
    /\ client \in held
    /\ databaseConnectionPool' = Splice(databaseConnectionPool, client)
    /\ held' = held \ {client}
    /\ outcome' = [call |-> "release", result |-> "resolved", at |-> lifecycle]
    /\ UNCHANGED <<usePool, pool, databaseConnection, registered, released, lifecycle>>
    /\ UNCHANGED <<loaderVars, validatorVars>>

\* disconnect(): throws without connection and pool; else ends the connection, calls
\* the releaseCallbacks, ends the pool and resolves.  Without a pool this.pool.end
\* throws a TypeError in the promise's executor and the promise is rejected with it.
Disconnect ==
    /\ registered' = databaseConnectionPool
    /\ IF ~databaseConnection /\ ~pool
       THEN /\ outcome' = [call |-> "disconnect", result |-> "ConnectionIsNotSetError",
                           at |-> lifecycle]
            /\ released' = <<>>
            /\ UNCHANGED <<pool, databaseConnection, databaseConnectionPool, held,
                           lifecycle>>
       ELSE \E loop \in {ForEachRelease(databaseConnectionPool, 1,
                                         Len(databaseConnectionPool), <<>>)} :
            /\ databaseConnection' = FALSE
            /\ released' = loop.called
            /\ held' = held \ {loop.called[k] : k \in 1..Len(loop.called)}
            /\ lifecycle' = "disconnected"
            /\ IF pool
               THEN /\ pool' = FALSE
                    /\ databaseConnectionPool' = <<>>
                    /\ outcome' = [call |-> "disconnect", result |-> "resolved",
                                   at |-> lifecycle]
               ELSE /\ databaseConnectionPool' = loop.list
                    /\ outcome' = [call |-> "disconnect", result |-> "TypeError",
                                   at |-> lifecycle]
                    /\ UNCHANGED pool
    /\ UNCHANGED usePool
    /\ UNCHANGED <<loaderVars, validatorVars>>

DriverNext ==
    \/ Connect
    \/ CreateQueryRunner
    \/ \E client \in Clients : Release(client)
    \/ Disconnect

SpecDriver == DriverInit /\ [][DriverNext]_vars

----------------------------------------------------------------------------
(* Notions the properties are stated with *)

Completed == pc \in {"resolved", "rejected"}

\* the collection holds a Subject for the type and identifier of object o
InCollection(o) ==
    \E i \in 1..Len(loadMap) :
        Collection[i].target = TypeOf(o) /\ MixedId(Collection[i]) = IdOf(o)

\* a relation property with insert or update cascade and an entity as its value
CascadeEdges ==
    {sl \in Slots : /\ heap[sl] \notin {Null, Undefined}
                    /\ (isCascadeInsert(sl[2]) \/ isCascadeUpdate(sl[2]))}

\* the objects reachable from the roots over cascade edges
RECURSIVE ReachableFrom(_)
ReachableFrom(S) ==
    LET more == S \cup {heap[sl] : sl \in {e \in CascadeEdges : e[1] \in S}}
    IN IF more = S THEN S ELSE ReachableFrom(more)

CascadeReachable == ReachableFrom(Roots)

\* every stored row is the database entity of the Subject found for it
RowsAssigned ==
    \A row \in storage :
        LET k == findByEntityLike(loadMap, subjects, row.target, row)
        IN k # 0 => subjects[k].databaseEntity = row

Lookups == {k \in 1..Len(issued) : issued[k].kind = "lookup"}

\* a Subject of the type and identifier, marked for removal, is in the collection
MarkedInCollection(target, id) ==
    \E i \in 1..Len(loadMap) :
        /\ Collection[i].target = target
        /\ MixedId(Collection[i]) = id
        /\ Collection[i].markedAsRemoved

\* some Subject the loader holds, in the collection or not, has the type and
\* identifier and is marked for removal
MarkedSubject(target, id) ==
    \E k \in 1..Len(subjects) :
        /\ subjects[k].target = target
        /\ MixedId(subjects[k]) = id
        /\ subjects[k].markedAsRemoved

----------------------------------------------------------------------------
(* Properties *)

\* C1 - Deduplication: when load() has completed, every (entity type, identifier)
\* pair of the collection is there as exactly one Subject.
C1_Deduplication ==
    Completed =>
        \A i, j \in 1..Len(loadMap) :
            (/\ Collection[i].target = Collection[j].target
             /\ MixedId(Collection[i]) = MixedId(Collection[j])) => i = j

\* C2 - Removal symmetry, owner side: for a Subject with a database entity and a
\* many-to-one or one-to-one-owner relation with remove cascade, the related Subject
\* is marked for removal if and only if the persisted relation id is null or differs
\* from the relation id in the database and the related row exists in storage.
C2_RemovalSymmetry ==
    pc = "resolved" =>
        \A i \in 1..Len(loadMap) : \A r \in OwnedRelations(Collection[i].target) :
            LET subject == Collection[i]
                persisted == PersistValueRelationId(subject, r)
                stored == subject.databaseEntity.fk[r]
            IN (/\ isCascadeRemove(r)
                /\ subject.databaseEntity # NoRow
                /\ subject.entity # NoEntity
                /\ persisted # Undefined)
               => (MarkedSubject(RelTarget(r), stored)
                     <=> /\ persisted = Null \/ persisted # stored
                         /\ \E row \in storage :
                                row.target = RelTarget(r) /\ row.id = stored)

\* the input of Scenario A: Post{id:1, category: null}, the stored Post row has
\* categoryId = 5 and the Category row 5 exists
ScenarioA ==
    /\ heap[<<"P1", "category">>] = Null
    /\ \E row \in storage : row.target = "Post" /\ row.id = "1" /\ row.fk["category"] = "5"
    /\ \E row \in storage : row.target = "Category" /\ row.id = "5"

\* C3 - Scenario A: load() ends with a Subject for Category{id:5} in the collection
\* that is marked for removal.
C3_ScenarioA ==
    (pc = "resolved" /\ ScenarioA) => MarkedInCollection("Category", "5")

\* C4 - Phase 1 termination: the insert/update discovery walk terminates for every
\* finite entity graph, cyclic ones included (it never recurses without end).
C4_Phase1Terminates == error # "RangeError"

\* C5 - Cascade gating: Phase 1 recurses only through a relation with insert or update
\* cascade whose value is a defined entity, and only a value reached that way (or the
\* root) gets a Subject or a frame of the walk.
C5_CascadeGating ==
    /\ \A sl \in followed :
          /\ heap[sl] \notin {Null, Undefined}
          /\ isCascadeInsert(sl[2]) \/ isCascadeUpdate(sl[2])
    /\ \A i \in 1..Len(loadMap) :
          \/ Collection[i].entity \in Roots \cup {NoEntity}
          \/ \E sl \in followed : heap[sl] = Collection[i].entity
    /\ \A k \in 1..Len(stack) :
          \/ stack[k].entity \in Roots
          \/ \E sl \in followed : heap[sl] = stack[k].entity

\* C5 witness: a load resolved for a root whose author (no cascade) is populated and was
\* not followed, whose category (all cascades) is null and was not followed, and whose
\* information (all cascades) is an entity and was followed
C5_Witness ==
    /\ pc = "resolved"
    /\ heap[<<"P1", "author">>] = "A1" /\ <<"P1", "author">> \notin followed
    /\ heap[<<"P1", "category">>] = Null /\ <<"P1", "category">> \notin followed
    /\ heap[<<"P1", "information">>] = "I3" /\ <<"P1", "information">> \in followed
    /\ InCollection("I3") /\ ~InCollection("A1")

\* C6 - Idempotence: a second load() of the same entity graph on unchanged storage, made
\* on the same loader, resolves with a collection identical to the first one's.
C6_Idempotence ==
    (pc = "resolved" /\ nLoads = 2) => Collection = firstResult

\* C7 - Phase ordering: no findByIds is issued before the walk has returned with every
\* reachable Subject in the collection, and no Phase-3 check starts (nor does load()
\* get past Phase 2) while a findByIds is in flight or a returned row is unassigned.
C7_PhaseOrdering ==
    /\ issued # <<>> =>
          stack = <<>> /\ \A o \in CascadeReachable : InCollection(o)
    /\ (pc \in {"phase3", "resolved"} \/ checks # <<>> \/ Lookups # {}) =>
          fetches = <<>> /\ RowsAssigned

\* C7 witness: Phase 3 is under way after a Phase 2 of two group fetches
C7_Witness ==
    /\ pc = "phase3"
    /\ checks # <<>>
    /\ Cardinality({k \in 1..Len(issued) : issued[k].kind = "findByIds"}) >= 2
    /\ \E i \in 1..Len(loadMap) : Collection[i].databaseEntity # NoRow

\* C8 as claimed - Join barrier: load() completes, resolved or rejected, only when every
\* relation check started in Phase 3 has settled.
C8_JoinBarrier == Completed => checks = <<>>

\* C8 as amended: load() resolves only when every relation check has settled (a
\* rejected load() may leave checks suspended at their lookups).
C8_JoinBarrierOnResolve == pc = "resolved" => checks = <<>> /\ fetches = <<>>

\* C8 witness: load() resolved after two relation checks had looked up storage
C8_Witness == pc = "resolved" /\ Cardinality(Lookups) >= 2

\* C9 - Failure propagation: when a fetch of Phase 2 or Phase 3 has failed, load() is
\* rejected with the fetch error and is never resolved.
C9_FailurePropagation == failed => (pc = "rejected" /\ error = "FetchError")

\* C9 witness: load() rejected by a lookup of Phase 3 that failed
C9_Witness == failed /\ pc = "rejected" /\ Lookups # {} /\ fetches = <<>>

\* no lookup is issued for a relation whose property is undefined
\* in the persisted entity of the Subject checked
UndefinedSkipped ==
    \A k \in Lookups :
        LET subject == subjects[issued[k].subject]
        IN subject.entity # NoEntity =>
              heap[<<subject.entity, issued[k].relation>>] # Undefined

\* C11 - Undefined means untouched: a remove-cascade relation whose property is
\* undefined is skipped in Phase 3 (no lookup, no removal through it) whatever the
\* database holds, whereas a null property is evaluated as a cleared relation: the
\* row the stored relation id names, when it exists, is marked for removal.
C11_UndefinedUntouched ==
    /\ UndefinedSkipped
    /\ pc = "resolved" =>
          \A i \in 1..Len(loadMap) : \A r \in OwnedRelations(Collection[i].target) :
              LET subject == Collection[i]
                  stored == subject.databaseEntity.fk[r]
              IN (/\ isCascadeRemove(r)
                  /\ subject.databaseEntity # NoRow
                  /\ subject.entity # NoEntity
                  /\ heap[<<subject.entity, r>>] = Null
                  /\ \E row \in storage : row.target = RelTarget(r) /\ row.id = stored)
                 => MarkedSubject(RelTarget(r), stored)

\* C12 - New entities never trigger cascade-remove: a Subject without database entity
\* after Phase 2 is never the Subject a relation check of Phase 3 goes on for, never
\* causes a lookup, and is never marked for removal.
C12_NewEntitiesUntouched ==
    /\ \A k \in Lookups : subjects[issued[k].subject].databaseEntity # NoRow
    /\ \A k \in 1..Len(checks) : subjects[checks[k].subject].databaseEntity # NoRow
    /\ \A k \in 1..Len(subjects) :
          subjects[k].markedAsRemoved => subjects[k].databaseEntity # NoRow

\* C12 witness: load() resolved after a lookup for the stored root, with a new
\* Information (no row) in the collection whose remove-cascade relation is populated
C12_Witness ==
    /\ pc = "resolved"
    /\ Lookups # {}
    /\ \E i \in 1..Len(loadMap) :
          /\ Collection[i].entity = "I3"
          /\ Collection[i].databaseEntity = NoRow
          /\ heap[<<"I3", "post">>] = "P2"

\* the input of Scenario B: Post{id:1, details: D}, details with insert cascade only
\* and D a new entity without identifier
ScenarioB == heap[<<"P1", "details">>] = "D0" /\ IdOf("D0") = Undefined

\* C13 - Scenario B: Phase 1 creates a Subject for D, Phase 2 leaves it without
\* database entity, and the Subject takes no part in Phase 3 (no relation check goes
\* on for it, no lookup, no removal mark).
C13_ScenarioB ==
    ScenarioB =>
        /\ pc \in {"phase2", "phase3", "resolved"} =>
              \E i \in 1..Len(loadMap) : Collection[i].entity = "D0"
        /\ \A k \in 1..Len(subjects) :
              subjects[k].entity = "D0" =>
                  /\ subjects[k].databaseEntity = NoRow
                  /\ ~subjects[k].markedAsRemoved
                  /\ \A c \in 1..Len(checks) : checks[c].subject # k
                  /\ \A c \in Lookups : issued[c].subject # k

\* C13 witness: load() resolved on Scenario B with the Post row stored and a lookup
\* made for the Post, the Subject of D in the collection without database entity
C13_Witness ==
    /\ pc = "resolved"
    /\ ScenarioB
    /\ Lookups # {}
    /\ \E i \in 1..Len(loadMap) :
          Collection[i].entity = "P1" /\ Collection[i].databaseEntity # NoRow
    /\ \E i \in 1..Len(loadMap) :
          Collection[i].entity = "D0" /\ Collection[i].databaseEntity = NoRow

\* C14 - Missing related row is not an error: when the lookups of Phase 3 return no
\* row, no Subject is created or marked through them, and load() is not rejected on
\* their account (only a failed fetch or the unbounded recursion of the walk rejects).
C14_MissingRowNoError ==
    (\A k \in Lookups :
        getSingleResult(issued[k].target, issued[k].column, issued[k].id) = NoRow)
    => /\ \A k \in 1..Len(subjects) : subjects[k].entity # NoEntity
       /\ \A i \in 1..Len(loadMap) :
             /\ \A j \in 1..Len(loadMap) : loadMap[i] = loadMap[j] => i = j
             /\ Lookups # {} => ~Collection[i].markedAsRemoved
       /\ pc = "rejected" => (failed \/ error = "RangeError")

\* C14 witness: load() resolved after a lookup for a Category that returned no row
\* although Category rows are stored
C14_Witness ==
    /\ pc = "resolved"
    /\ ~failed
    /\ \E k \in Lookups :
          /\ issued[k].target = "Category"
          /\ getSingleResult(issued[k].target, issued[k].column, issued[k].id) = NoRow
          /\ \E row \in storage : row.target = "Category"

\* C15 - One batched read per type: Phase 2 issues exactly one findByIds for each
\* entity type of the collection, with the identifiers of all the Subjects of that
\* type, and no findByIds for anything else (no fetch per entity).
C15_OneBatchPerType ==
    LET batches == {k \in 1..Len(issued) : issued[k].kind = "findByIds"}
        ofType(T) == {i \in 1..Len(loadMap) : Collection[i].target = T}
    IN (pc \in {"phase2", "phase3", "resolved"} \/ batches # {}) =>
          /\ \A i \in 1..Len(loadMap) :
                Cardinality({k \in batches :
                                issued[k].target = Collection[i].target}) = 1
          /\ \A k \in batches :
                /\ ofType(issued[k].target) # {}
                /\ Len(issued[k].ids) = Cardinality(ofType(issued[k].target))
                /\ IdsIn(issued[k].ids)
                      = {MixedId(Collection[i]) : i \in ofType(issued[k].target)}

\* C15 witness: load() resolved with two Posts and an Information in the collection,
\* fetched by one findByIds for the ids 1 and 2 and one for the id 3
C15_Witness ==
    /\ pc = "resolved"
    /\ InCollection("P1") /\ InCollection("P2") /\ InCollection("I3")
    /\ \E k \in 1..Len(issued) :
          /\ issued[k].kind = "findByIds"
          /\ issued[k].target = "Post"
          /\ IdsIn(issued[k].ids) = {"1", "2"}
    /\ Cardinality({k \in 1..Len(issued) : issued[k].kind = "findByIds"}) = 2

\* C16 - Subject invariant: in every reachable state every Subject the loader has
\* created, in the collection or not, has a persisted entity or a database entity.
C16_SubjectInvariant ==
    \A k \in 1..Len(subjects) :
        \/ subjects[k].entity \notin {NoEntity, Null, Undefined}
        \/ subjects[k].databaseEntity # NoRow

\* C16 witness: load() resolved with a Subject that has both values and a Subject of
\* a new entity that has the persisted one only
C16_Witness ==
    /\ pc = "resolved"
    /\ \E i \in 1..Len(loadMap) :
          Collection[i].entity = "P1" /\ Collection[i].databaseEntity # NoRow
    /\ \E i \in 1..Len(loadMap) :
          Collection[i].entity = "C5" /\ Collection[i].databaseEntity = NoRow

\* the relations of the metadata set that declare a relation count on a many-to-one
\* or one-to-one relation, as <<entry, relation>> positions
Offending ==
    {pos \in (1..Len(entityMetadatas)) \X (1..MaxRelations) :
        /\ pos[2] <= Len(entityMetadatas[pos[1]].relations)
        /\ entityMetadatas[pos[1]].relations[pos[2]].relationCount
        /\ entityMetadatas[pos[1]].relations[pos[2]].relationType
              \in {"many-to-one", "one-to-one"}}

\* the metadata set of Scenario C: one relation breaks the rule, a one-to-one relation
\* declared with a relation count
ScenarioC ==
    /\ Cardinality(Offending) = 1
    /\ \A pos \in Offending :
          entityMetadatas[pos[1]].relations[pos[2]].relationType = "one-to-one"

\* C17 - Validator rejection: validateMany fails for every metadata set with a relation
\* count declared on a many-to-one or one-to-one relation, and on the metadata set of
\* Scenario C the failure lists exactly the one offending relation.
C17_ValidatorRejection ==
    vResult \in {"succeeded", "failed"} =>
        /\ Offending # {} => vResult = "failed"
        /\ ScenarioC => vResult = "failed" /\ Len(vErrors) = 1 /\ vErrors[1] \in Offending

\* C17 witness: validateMany has failed on Scenario C, the offending one-to-one relation
\* declared next to a one-to-many relation with a relation count
C17_Witness ==
    /\ vResult = "failed"
    /\ ScenarioC
    /\ \E e \in 1..Len(entityMetadatas) : \E i \in 1..Len(entityMetadatas[e].relations) :
          /\ entityMetadatas[e].relations[i].relationType = "one-to-many"
          /\ entityMetadatas[e].relations[i].relationCount

\* C18 - Validator aggregation: validateMany fails only after it has inspected every
\* relation of every metadata entry, with one error that lists every offending relation
\* of all the entries (once each), and it succeeds when no relation breaks the rule.
C18_ValidatorAggregation ==
    /\ vResult = "failed" =>
          /\ vEntry > Len(entityMetadatas)
          /\ Offending # {}
          /\ {vErrors[k] : k \in 1..Len(vErrors)} = Offending
          /\ Len(vErrors) = Cardinality(Offending)
    /\ vResult = "succeeded" => vEntry > Len(entityMetadatas)
    /\ (vResult \in {"succeeded", "failed"} /\ Offending = {}) => vResult = "succeeded"

\* C18 witness: validateMany has failed on a metadata set with offending relations in
\* both entries, the first of them followed by a relation that keeps the rule
C18_Witness ==
    /\ vResult = "failed"
    /\ \E p, q \in Offending : p[1] = 1 /\ q[1] = 2
    /\ <<1, 1>> \in Offending
    /\ Len(entityMetadatas[1].relations) = 2 /\ <<1, 2>> \notin Offending

\* C21 - Non-owning one-to-one removal: for a Subject with a database entity whose
\* non-owner one-to-one relation has remove cascade and whose persisted relation value
\* is null or another entity, a stored row of the related type whose foreign key points
\* back at the Subject's identifier gets a Subject marked for removal; when the
\* persisted relation refers to that same row, it is not marked.
C21_NotOwnerRemoval ==
    pc = "resolved" =>
        \A i \in 1..Len(loadMap) : \A r \in Relations :
            LET subject == Collection[i]
                persisted == PersistValueRelationId(subject, r)
            IN (/\ HasRelation(subject.target, r)
                /\ isOneToOneNotOwner(r)
                /\ isCascadeRemove(r)
                /\ subject.databaseEntity # NoRow
                /\ subject.entity # NoEntity
                /\ persisted # Undefined)
               => \A row \in storage :
                     (/\ row.target = RelTarget(r)
                      /\ row.fk[InverseJoinProperty(r)] = subject.databaseEntity.id)
                     => (MarkedSubject(row.target, row.id) <=> persisted # row.id)

\* the relation checks of owner-side relations with remove cascade that Phase 3 runs:
\* a Subject of the collection with a database entity and such a relation
OwnerChecks ==
    {c \in (1..Len(loadMap)) \X Relations :
        /\ c[2] \in OwnedRelations(Collection[c[1]].target)
        /\ isCascadeRemove(c[2])
        /\ Collection[c[1]].databaseEntity # NoRow}

\* a lookup was issued by the relation check c
LookedUp(c) ==
    \E k \in Lookups : issued[k].subject = loadMap[c[1]] /\ issued[k].relation = c[2]

C24_Phase2Population ==
    pc \in {"phase3", "resolved"} =>
        \A i \in 1..Len(loadMap) :
            LET subject == Collection[i]
                rows == {row \in storage : /\ row.target = subject.target
                                           /\ row.id = MixedId(subject)}
            IN subject.entity # NoEntity =>
                  /\ subject.databaseEntity # NoRow <=> rows # {}
                  /\ subject.databaseEntity # NoRow => subject.databaseEntity \in rows

\* the objects a cascade edge leads to from object o
CascadeSuccessors(o) == {heap[sl] : sl \in {e \in CascadeEdges : e[1] = o}}

\* no object reaches itself over cascade edges
Acyclic == \A o \in Objects : o \notin ReachableFrom(CascadeSuccessors(o))

\* C25 - Phase-1 completeness: on an acyclic entity graph, when Phase 1 is over the
\* collection holds a Subject for the root and for every entity reachable from it over
\* relations with insert or update cascade and a defined value, also for the entities
\* reached only through an entity that was in the collection already.
C25_Phase1Completeness ==
    (Acyclic /\ pc \in {"phase2", "phase3", "resolved"}) =>
        \A o \in CascadeReachable : \E i \in 1..Len(loadMap) : Collection[i].entity = o

\* C25 witness: Phase 1 is over on a graph where Category C5 is reached from the root
\* and again through Information I3 and Post P2, and every one of them has its Subject
C25_Witness ==
    /\ pc = "phase2"
    /\ Acyclic
    /\ heap[<<"P1", "category">>] = "C5"
    /\ heap[<<"P1", "details">>] = "D0"
    /\ heap[<<"P1", "information">>] = "I3"
    /\ heap[<<"I3", "post">>] = "P2"
    /\ heap[<<"P2", "category">>] = "C5"
    /\ CascadeReachable = {"P1", "C5", "D0", "I3", "P2"}
    /\ Len(loadMap) = 5

\* the relation checks with remove cascade that get past the guards of lines 150-201
\* and 260-264, the point where the related entity has to be found
RemovalChecks ==
    {c \in (1..Len(loadMap)) \X Relations :
        /\ HasRelation(Collection[c[1]].target, c[2])
        /\ isCascadeRemove(c[2])
        /\ Collection[c[1]].databaseEntity # NoRow
        /\ ~SkipUndefined(Collection[c[1]], c[2])
        /\ IF isOneToOneNotOwner(c[2])
           THEN ~NotOwnerNothingToRemove(Collection[c[1]], c[2])
           ELSE ~OwnerNothingToRemove(Collection[c[1]], c[2])}

RECURSIVE FetchInOrder(_, _, _)
FetchInOrder(subs, map, pending) ==
    IF pending = <<>> THEN subs
    ELSE FetchInOrder(AssignDatabaseEntities(map, subs, pending[1].target,
                          findByIds(pending[1].target, pending[1].ids)),
                      map, Tail(pending))

\* the lookups returning one after the other in the order they were issued
RECURSIVE SettleInOrder(_)
SettleInOrder(st) ==
    IF st.checks = <<>> THEN st
    ELSE LET check == st.checks[1]
             row == getSingleResult(check.target, check.column, check.id)
         IN SettleInOrder(CheckResume([st EXCEPT !.checks = Tail(@)], check, row))

\* the collection load() ends with when every fetch returns in the order of issue
InOrderResult ==
    LET subs == FetchInOrder(walked.subjects, walked.loadMap,
                             GroupFetches(walked.loadMap, walked.subjects))
        st == SettleInOrder(RunChecks(State(subs, walked.loadMap, <<>>, <<>>),
                                      RemovePopulation(walked.loadMap, subs)))
    IN [i \in 1..Len(st.loadMap) |-> st.subjects[st.loadMap[i]]]

\* C27 - Order independence: for a fixed entity graph and storage the collection load()
\* resolves with (its Subjects, their database entities, their removal marks) is the
\* same whatever the order in which the group fetches of Phase 2 and the lookups of
\* Phase 3 return: it is the collection of the run in which they return in order of
\* issue.
C27_OrderIndependence == pc = "resolved" => Collection = InOrderResult

\* C27 witness: load() resolved after three group fetches and two lookups, which could
\* return in any order
C27_Witness ==
    /\ pc = "resolved"
    /\ Cardinality({k \in 1..Len(issued) : issued[k].kind = "findByIds"}) >= 3
    /\ Cardinality(Lookups) = 2
    /\ \E i \in 1..Len(loadMap) : Collection[i].databaseEntity = NoRow

\* C29 - Phase-3 termination: with a storage whose lookups return, the removal
\* discovery ends and load() completes whatever the stored rows are, also when
\* remove-cascade relations between stored rows form a cycle.
C29_Phase3Terminates == (pc = "phase3") ~> (pc \in {"resolved", "rejected"})

\* C29 witness: load() resolved after a lookup of Phase 3, with a stored Post row and a
\* stored Information row that refer to each other over relations with remove cascade
\* on both sides
C29_Witness ==
    /\ pc = "resolved"
    /\ Lookups # {}
    /\ \E post, information \in storage :
          /\ post.target = "Post" /\ information.target = "Information"
          /\ getOwnEntityRelationId("information", post) = information.id
          /\ getInverseEntityRelationId("post", post) = getOwnEntityRelationId("post", information)
    /\ isCascadeRemove("information") /\ isCascadeRemove("post")

\* C30 - Driver disconnect releases the whole pool: when disconnect() is called with
\* n >= 1 connections registered in databaseConnectionPool, the releaseCallback of each
\* of them is called exactly once, and afterwards the list is empty and the pool unset.
C30_DisconnectReleasesPool ==
    (outcome.call = "disconnect" /\ outcome.result = "resolved" /\ registered # <<>>) =>
        /\ \A k \in 1..Len(registered) :
              Cardinality({j \in 1..Len(released) : released[j] = registered[k]}) = 1
        /\ databaseConnectionPool = <<>>
        /\ ~pool

\* C31 - Driver connect/disconnect lifecycle: in both modes (pooled, and single
\* connection with usePool = false) a disconnect that follows a successful connect
\* resolves without error and leaves the driver with neither a connection nor a pool,
\* so that a following disconnect or createQueryRunner fails with
\* ConnectionIsNotSetError; disconnect or createQueryRunner before any connect fails
\* with ConnectionIsNotSetError too.
C31_Lifecycle ==
    /\ (outcome.call = "disconnect" /\ outcome.at = "connected") =>
          /\ outcome.result = "resolved"
          /\ ~databaseConnection
          /\ ~pool
    /\ (outcome.call \in {"disconnect", "createQueryRunner"}
           /\ outcome.at \in {"new", "disconnected"}) =>
          outcome.result = "ConnectionIsNotSetError"

====
